---------------------------- MODULE Spec2Model ----------------------------
(***************************************************************************)
(* Quantum Phase Estimation adapter (src/src/quantum_qpe/main.py).         *)
(*                                                                         *)
(* The model follows one caller: raw input is handed to the QPEParams      *)
(* constructor, the Parameters record it yields is handed to               *)
(* QPEAlgorithm.execute, and execute runs statement by statement: device   *)
(* construction, the gates queued by qpe_circuit, the execution of the     *)
(* queued circuit by the device, the readout arithmetic, the construction  *)
(* of the QPEResult.  Any statement inside the try block may raise.        *)
(*                                                                         *)
(* Numbers.  angle, estimated_phase and phase_error are rationals          *)
(* <<num, den>> in lowest terms; the inputs are dyadic, so every binary64  *)
(* operation of the source on them is exact.  The amplitudes of the        *)
(* state vector are kept exactly, as elements of Z[w] (w = exp(2 pi i/16)) *)
(* over a common power of sqrt(2): the ring holds every gate of the        *)
(* circuit for angles that are multiples of 1/4 and an inverse Fourier     *)
(* transform over up to four estimation qubits.                            *)
(***************************************************************************)
EXTENDS Integers, Sequences, FiniteSets, TLC

(***************************************************************************)
(* Bounds of the model.                                                    *)
(***************************************************************************)
\* the largest precision whose circuit is simulated
MaxSimPrecision == 3
\* the number of calls of execute one behaviour follows
MaxCalls == 2

(***************************************************************************)
(* Program constants.                                                      *)
(***************************************************************************)
\* precision: conint(ge=1, le=10)
MinPrecision == 1
MaxPrecision == 10
\* precision: Field(default=4)
DefaultPrecision == 4
\* unitary: Field(default="rotation")
DefaultUnitary == "rotation"
\* unitary: Literal["rotation", "phase", "z"]
Unitaries == {"rotation", "phase", "z"}

(***************************************************************************)
(* Optional values: <<>> is Python's None (or an absent keyword argument), *)
(* <<x>> a present value.                                                  *)
(***************************************************************************)
NoneV == << >>
Some(x) == << x >>
Get(o) == o[1]

(***************************************************************************)
(* Rationals in lowest terms, <<num, den>> with den > 0.                   *)
(***************************************************************************)
Abs(n) == IF n < 0 THEN -n ELSE n

RECURSIVE GCD(_, _)
GCD(a, b) == IF b = 0 THEN a ELSE GCD(b, a % b)

Rat(n, d) ==
    LET g == GCD(Abs(n), d)
    IN  << n \div g, d \div g >>

RatSub(a, b) == Rat(a[1] * b[2] - b[1] * a[2], a[2] * b[2])
RatAbs(a) == << Abs(a[1]), a[2] >>
RatLeq(a, b) == a[1] * b[2] <= b[1] * a[2]

Pow2(n) == 2 ^ n


(***************************************************************************)
(* Exact complex arithmetic of the simulator.  An element of Z[w],         *)
(* w = exp(2 pi i / 16), is the function c with value                      *)
(* c[0] + c[1] w + ... + c[7] w^7; w^8 = -1.                               *)
(***************************************************************************)
Coefs == 0 .. 7

RZero == [k \in Coefs |-> 0]
ROne == [k \in Coefs |-> IF k = 0 THEN 1 ELSE 0]
RAdd(a, b) == [k \in Coefs |-> a[k] + b[k]]
RNeg(a) == [k \in Coefs |-> -a[k]]

\* a * w^j
RMulRoot(a, j) ==
    [m \in Coefs |->
        LET k == (m + 16 - (j % 16)) % 16
        IN  IF k < 8 THEN a[k] ELSE -a[k - 8]]

\* a * sqrt(2), sqrt(2) = w^2 - w^6
RMulSqrt2(a) == RAdd(RMulRoot(a, 2), RNeg(RMulRoot(a, 6)))

RIsEven(a) == \A k \in Coefs : a[k] % 2 = 0
RHalf(a) == [k \in Coefs |-> a[k] \div 2]

(***************************************************************************)
(* Exact reals of the simulator: <<x0, x1, y0, y1>> is                     *)
(* (x0 + x1 sqrt2) + (y0 + y1 sqrt2) s with s = 2 cos(pi/8),               *)
(* s^2 = 2 + sqrt2.  The four basis numbers are independent over the       *)
(* rationals, so equal reals are equal tuples.                             *)
(***************************************************************************)
R4Zero == << 0, 0, 0, 0 >>
R4Int(n) == << n, 0, 0, 0 >>
R4Add(a, b) == << a[1] + b[1], a[2] + b[2], a[3] + b[3], a[4] + b[4] >>
R4Sub(a, b) == << a[1] - b[1], a[2] - b[2], a[3] - b[3], a[4] - b[4] >>

Sgn(n) == IF n > 0 THEN 1 ELSE IF n < 0 THEN -1 ELSE 0

\* the sign of x0 + x1 sqrt2
Sgn2(x0, x1) ==
    IF x0 >= 0 /\ x1 >= 0 THEN (IF x0 = 0 /\ x1 = 0 THEN 0 ELSE 1)
    ELSE IF x0 <= 0 /\ x1 <= 0 THEN -1
    ELSE IF x0 > 0 THEN Sgn(x0 * x0 - 2 * x1 * x1)
    ELSE Sgn(2 * x1 * x1 - x0 * x0)

\* the sign of A + B s: where A and B differ in sign, that of A^2 - B^2 (2 + sqrt2)
Sgn4(x) ==
    LET sa == Sgn2(x[1], x[2])
        sb == Sgn2(x[3], x[4])
        a0 == x[1] * x[1] + 2 * x[2] * x[2]
        a1 == 2 * x[1] * x[2]
        b0 == x[3] * x[3] + 2 * x[4] * x[4]
        b1 == 2 * x[3] * x[4]
    IN  IF sb = 0 THEN sa
        ELSE IF sa = 0 \/ sa = sb THEN sb
        ELSE sa * Sgn2(a0 - (2 * b0 + 2 * b1), a1 - (b0 + 2 * b1))

R4Less(a, b) == Sgn4(R4Sub(b, a)) > 0
R4Leq(a, b) == Sgn4(R4Sub(b, a)) >= 0

RECURSIVE SumTo(_, _, _)
\* f[lo] + f[lo + 1] + ... + f[hi] for an integer-valued f
SumTo(f, lo, hi) == IF lo > hi THEN 0 ELSE f[lo] + SumTo(f, lo + 1, hi)

\* |a|^2 as a real: r[d] is the coefficient of w^d + w^-d = 2 cos(d pi / 8)
Norm2(a) ==
    LET r == [d \in Coefs |-> SumTo([j \in 0 .. (7 - d) |-> a[j] * a[j + d]], 0, 7 - d)]
    IN  << r[0], r[2] - r[6], (r[1] - r[7]) - (r[3] - r[5]), r[3] - r[5] >>

(***************************************************************************)
(* The state vector of the 'default.qubit' device over n wires: the        *)
(* amplitude of basis state x is amp[x] / sqrt(2)^exp; wire 0 is the most  *)
(* significant bit of x.                                                   *)
(***************************************************************************)
Bit(x, w, n) == (x \div Pow2(n - 1 - w)) % 2
Flip(x, w, n) == IF Bit(x, w, n) = 0 THEN x + Pow2(n - 1 - w) ELSE x - Pow2(n - 1 - w)

\* |0...0> over n wires
ZeroState(n) ==
    [amp |-> [x \in 0 .. (Pow2(n) - 1) |-> IF x = 0 THEN ROne ELSE RZero],
     exp |-> 0,
     n |-> n]

RECURSIVE Normalize(_)
\* the same vector with the least common power of sqrt(2)
Normalize(sv) ==
    IF sv.exp > 0 /\ \A x \in DOMAIN sv.amp : RIsEven(RMulSqrt2(sv.amp[x]))
    THEN Normalize([sv EXCEPT !.amp = [x \in DOMAIN sv.amp |-> RHalf(RMulSqrt2(sv.amp[x]))],
                              !.exp = sv.exp - 1])
    ELSE sv

\* an entry of a gate matrix: <<>> is 0, <<j>> is w^j
MulEntry(e, a) == IF e = << >> THEN RZero ELSE RMulRoot(a, e[1])

\* exp(2 pi i angle) as a power of w
RootOf(angle) == ((16 * angle[1]) \div angle[2]) % 16

\* exp(pi i angle) as a power of w
HalfRootOf(angle) == ((8 * angle[1]) \div angle[2]) % 16

\* sqrt(2)^(h % 2) * (cos(h pi/4), sin(h pi/4)) as signs
CosSin(h) ==
    CASE h % 8 = 0 -> << 1, 0 >>
      [] h % 8 = 1 -> << 1, 1 >>
      [] h % 8 = 2 -> << 0, 1 >>
      [] h % 8 = 3 -> << -1, 1 >>
      [] h % 8 = 4 -> << -1, 0 >>
      [] h % 8 = 5 -> << -1, -1 >>
      [] h % 8 = 6 -> << 0, -1 >>
      [] OTHER -> << 1, -1 >>

SignEntry(v) == IF v = 0 THEN << >> ELSE IF v > 0 THEN << 0 >> ELSE << 8 >>

(***************************************************************************)
(* The matrices of the three unitaries at parameter 2 pi angle, as        *)
(* [e, m]: the matrix is m / sqrt(2)^e.                                    *)
(*   RY(t)         = [[cos t/2, -sin t/2], [sin t/2, cos t/2]]             *)
(*   PhaseShift(t) = diag(1, exp(i t))                                     *)
(*   RZ(t)         = diag(exp(-i t/2), exp(i t/2))                         *)
(***************************************************************************)
GateMatrix(name, angle) ==
    LET t == RootOf(angle)
        u == HalfRootOf(angle)
        h == (4 * angle[1]) \div angle[2]
        cs == CosSin(h)
    IN  CASE name = "RY" ->
               [e |-> h % 2,
                m |-> << << SignEntry(cs[1]), SignEntry(-cs[2]) >>,
                         << SignEntry(cs[2]), SignEntry(cs[1]) >> >>]
          [] name = "PhaseShift" ->
               [e |-> 0, m |-> << << << 0 >>, << >> >>, << << >>, << t >> >> >>]
          [] name = "RZ" ->
               [e |-> 0,
                m |-> << << << (16 - u) % 16 >>, << >> >>,
                         << << >>, << u >> >> >>]

\* qml.PauliX(wires=w)
ApplyPauliX(sv, w) ==
    [sv EXCEPT !.amp = [x \in DOMAIN sv.amp |-> sv.amp[Flip(x, w, sv.n)]]]

\* qml.Hadamard(wires=w)
ApplyHadamard(sv, w) ==
    [sv EXCEPT !.amp = [x \in DOMAIN sv.amp |->
                          IF Bit(x, w, sv.n) = 0
                          THEN RAdd(sv.amp[x], sv.amp[Flip(x, w, sv.n)])
                          ELSE RAdd(sv.amp[Flip(x, w, sv.n)], RNeg(sv.amp[x]))],
               !.exp = sv.exp + 1]

\* qml.ctrl(U, control=c)(t): U on wire t where wire c is 1, the identity elsewhere
ApplyControlled(sv, name, angle, c, t) ==
    LET g == GateMatrix(name, angle)
        scale(a) == IF g.e = 1 THEN RMulSqrt2(a) ELSE a
    IN  [sv EXCEPT !.amp = [x \in DOMAIN sv.amp |->
                              IF Bit(x, c, sv.n) = 0 THEN scale(sv.amp[x])
                              ELSE IF Bit(x, t, sv.n) = 0
                              THEN RAdd(MulEntry(g.m[1][1], sv.amp[x]),
                                        MulEntry(g.m[1][2], sv.amp[Flip(x, t, sv.n)]))
                              ELSE RAdd(MulEntry(g.m[2][1], sv.amp[Flip(x, t, sv.n)]),
                                        MulEntry(g.m[2][2], sv.amp[x]))],
                   !.exp = sv.exp + g.e]

RECURSIVE RSumTo(_, _, _)
\* f[lo] + ... + f[hi] for a ring-valued f
RSumTo(f, lo, hi) == IF lo > hi THEN RZero ELSE RAdd(f[lo], RSumTo(f, lo + 1, hi))

\* qml.adjoint(qml.QFT)(wires=range(m)): |y> -> 2^(-m/2) sum_k exp(-2 pi i y k / 2^m) |k>
\* on the leading m wires
ApplyAdjointQFT(sv, m) ==
    LET N == Pow2(m)
        R == Pow2(sv.n - m)
        step == 16 \div N
    IN  [sv EXCEPT !.amp = [x \in DOMAIN sv.amp |->
                              LET k == x \div R
                                  r == x % R
                              IN  RSumTo([y \in 0 .. (N - 1) |->
                                            RMulRoot(sv.amp[y * R + r],
                                                     16 - ((step * y * k) % 16))],
                                         0, N - 1)],
                   !.exp = sv.exp + m]

\* one queued operation applied to the state vector
ApplyOp(sv, op) ==
    Normalize(
      CASE op.name = "PauliX" -> ApplyPauliX(sv, op.wires[1])
        [] op.name = "Hadamard" -> ApplyHadamard(sv, op.wires[1])
        [] op.name = "Adjoint(QFT)" -> ApplyAdjointQFT(sv, Len(op.wires))
        [] OTHER -> ApplyControlled(sv, op.name, Get(op.angle), op.control[1], op.wires[1]))

RECURSIVE RunTape(_, _, _)
\* the device's execution of the queued operations, in queue order
RunTape(sv, ops, i) ==
    IF i > Len(ops) THEN sv ELSE RunTape(ApplyOp(sv, ops[i]), ops, i + 1)

RECURSIVE R4SumTo(_, _, _)
R4SumTo(f, lo, hi) == IF lo > hi THEN R4Zero ELSE R4Add(f[lo], R4SumTo(f, lo + 1, hi))

\* qml.probs(wires=range(m)): the marginal distribution of the leading m wires;
\* outcome q has probability val[q] / 2^exp
Probs(sv, m) ==
    LET R == Pow2(sv.n - m)
    IN  [val |-> [q \in 0 .. (Pow2(m) - 1) |->
                    R4SumTo([r \in 0 .. (R - 1) |-> Norm2(sv.amp[q * R + r])], 0, R - 1)],
         exp |-> sv.exp]

(***************************************************************************)
(* np.argmax and np.max over the probability vector.                       *)
(***************************************************************************)
RECURSIVE ArgMaxFrom(_, _, _)
\* the scan of np.argmax: a later entry replaces the best one only when greater
ArgMaxFrom(v, best, j) ==
    IF j \notin DOMAIN v THEN best
    ELSE ArgMaxFrom(v, IF R4Less(v[best], v[j]) THEN j ELSE best, j + 1)

RECURSIVE ArgMaxLastFrom(_, _, _)
ArgMaxLastFrom(v, best, j) ==
    IF j \notin DOMAIN v THEN best
    ELSE ArgMaxLastFrom(v, IF R4Leq(v[best], v[j]) THEN j ELSE best, j + 1)

\* mutant: the last of the equal maxima
ArgMaxLast(v) == ArgMaxLastFrom(v, 0, 1)

ArgMax(v) == ArgMaxFrom(v, 0, 1)

RECURSIVE MaxFrom(_, _, _)
MaxFrom(v, m, j) ==
    IF j \notin DOMAIN v THEN m
    ELSE MaxFrom(v, IF R4Less(m, v[j]) THEN v[j] ELSE m, j + 1)

MaxOf(v) == MaxFrom(v, v[0], 1)

(***************************************************************************)
(* The parameter schema.                                                   *)
(***************************************************************************)
\* mutant: the unitary typed as a plain string
UnitaryOkAnyString(u) == TRUE

\* unitary: Literal["rotation", "phase", "z"]
UnitaryOk(u) == u \in Unitaries

\* angle: confloat(ge=0.0, le=1.0)
AngleOk(a) == RatLeq(Rat(0, 1), a) /\ RatLeq(a, Rat(1, 1))

\* mutant: the upper bound taken as exclusive
PrecisionOkExclusive(n) == n >= MinPrecision /\ n < MaxPrecision

\* precision: conint(ge=1, le=10)
PrecisionOk(n) == n >= MinPrecision /\ n <= MaxPrecision

\* an absent unitary or precision takes its default; angle is required (Field(...))
WithDefault(o, d) == IF o = NoneV THEN d ELSE Get(o)

\* the fields of raw input that fail validation
FieldErrors(r) ==
    (IF UnitaryOk(WithDefault(r.unitary, DefaultUnitary)) THEN {} ELSE {"unitary"})
    \cup (IF r.angle # NoneV /\ AngleOk(Get(r.angle)) THEN {} ELSE {"angle"})
    \cup (IF PrecisionOk(WithDefault(r.precision, DefaultPrecision)) THEN {} ELSE {"precision"})

\* QPEParams(**r): the record, or the validation error
QPEParams(r) ==
    IF FieldErrors(r) = {}
    THEN [ok |-> TRUE,
          value |-> [unitary |-> WithDefault(r.unitary, DefaultUnitary),
                     angle |-> Get(r.angle),
                     precision |-> WithDefault(r.precision, DefaultPrecision)]]
    ELSE [ok |-> FALSE,
          error |-> [kind |-> "pydantic.ValidationError", fields |-> FieldErrors(r)]]

(***************************************************************************)
(* Exceptions.  A message is a sequence of words.  "except Exception"      *)
(* catches the classes that derive from Exception; KeyboardInterrupt       *)
(* derives from BaseException alone.                                       *)
(***************************************************************************)
ExceptionKinds == {"RuntimeError", "ValueError", "KeyboardInterrupt"}
Messages == { << "device", "unavailable" >>, << >> }
Exceptions == [kind : ExceptionKinds, msg : Messages, cause : {NoneV}]

\* the built-in classes that derive from BaseException but not from Exception
BaseOnly == {"KeyboardInterrupt", "SystemExit", "GeneratorExit"}

\* isinstance(e, Exception)
IsException(kind) == kind \notin BaseOnly

\* mutant: the original message dropped
WrapErrorNoContext(e) ==
    [kind |-> "ValidationError",
     msg |-> << "QPE", "execution", "failed:" >>,
     cause |-> Some(e)]

\* ValidationError(f"QPE execution failed: {str(e)}") from e
WrapError(e) ==
    [kind |-> "ValidationError",
     msg |-> << "QPE", "execution", "failed:" >> \o e.msg,
     cause |-> Some(e)]

(***************************************************************************)
(* The operations qpe_circuit queues.                                      *)
(***************************************************************************)
Range(n) == [k \in 1 .. n |-> k - 1]

PauliXOp(w) ==
    [name |-> "PauliX", control |-> << >>, wires |-> << w >>, angle |-> NoneV]
HadamardOp(w) ==
    [name |-> "Hadamard", control |-> << >>, wires |-> << w >>, angle |-> NoneV]
ControlledOp(name, angle, c, t) ==
    [name |-> name, control |-> << c >>, wires |-> << t >>, angle |-> Some(angle)]
AdjointQFTOp(ws) ==
    [name |-> "Adjoint(QFT)", control |-> << >>, wires |-> ws, angle |-> NoneV]

\* mutant: the first two branches exchanged
UnitaryOperatorSwapped(unitary) ==
    IF unitary = "rotation" THEN "PhaseShift"
    ELSE IF unitary = "phase" THEN "RY"
    ELSE "RZ"

\* unitary_operator: the gate of each unitary kind
UnitaryOperator(unitary) ==
    IF unitary = "rotation" THEN "RY"
    ELSE IF unitary = "phase" THEN "PhaseShift"
    ELSE "RZ"

\* mutant: range(2*power)
RepetitionsDoubled(power) == 2 * power

\* range(2**power) of controlled_unitary
Repetitions(power) == Pow2(power)

\* n_qubits = params.precision + 1
NQubits(ps) == ps.precision + 1

(***************************************************************************)
(* State.                                                                  *)
(***************************************************************************)
VARIABLES
    raw,            \* the raw input handed to QPEParams
    params,         \* the Parameters record, once constructed
    pc,             \* the caller's position
    calls,          \* calls of execute started so far
    dev,            \* execute's local dev
    tape,           \* the operations queued by qpe_circuit
    measurement,    \* the wires of the queued qml.probs
    i,              \* loop index of qpe_circuit
    rep,            \* loop index of controlled_unitary
    probabilities,  \* execute's local probabilities
    readout,        \* measured_value, estimated_phase, max_probability, phase_error
    result,         \* execute's local result
    returned,       \* the QPEResult the caller received
    raised,         \* the error the caller received
    thrown,         \* the exception a statement of the try block raised
    devices,        \* qml.device calls of the current call of execute
    runs            \* device executions of the current call of execute

vars == << raw, params, pc, calls, dev, tape, measurement, i, rep, probabilities,
           readout, result, returned, raised, thrown, devices, runs >>

locals == << dev, tape, measurement, i, rep, probabilities, readout, result >>

(***************************************************************************)
(* Inputs.                                                                 *)
(***************************************************************************)
UnitaryInputs == {NoneV, Some("rotation"), Some("phase"), Some("z"), Some("invalid")}

AngleInputs ==
    {NoneV} \cup {Some(Rat(n, 4)) : n \in -1 .. 5}

\* the precisions whose circuits are simulated, and one on each side of the range
PrecisionInputs ==
    {Some(n) : n \in (0 .. MaxSimPrecision) \cup {MaxPrecision + 1}}

RawInputs == [unitary : UnitaryInputs, angle : AngleInputs, precision : PrecisionInputs]

\* every precision around the range, and an absent one
WidePrecisionInputs ==
    {NoneV} \cup {Some(n) : n \in (MinPrecision - 2) .. (MaxPrecision + 2)}

WideRawInputs ==
    [unitary : UnitaryInputs \cup {Some("Rotation")},
     angle : AngleInputs,
     precision : WidePrecisionInputs]

Fresh(r) ==
    /\ raw = r
    /\ params = NoneV
    /\ pc = "input"
    /\ dev = NoneV
    /\ tape = << >>
    /\ measurement = NoneV
    /\ i = 0
    /\ rep = 0
    /\ probabilities = NoneV
    /\ readout = NoneV
    /\ result = NoneV
    /\ returned = NoneV
    /\ raised = NoneV
    /\ thrown = NoneV
    /\ devices = 0
    /\ runs = 0

Init == calls = 0 /\ \E r \in RawInputs : Fresh(r)

InitParams == calls = 0 /\ \E r \in WideRawInputs : Fresh(r)

(***************************************************************************)
(* Parameter construction.                                                 *)
(***************************************************************************)
\* QPEParams(unitary=..., angle=..., precision=...)
Construct ==
    /\ pc = "input"
    /\ LET r == QPEParams(raw)
       IN  IF r.ok
           THEN /\ params' = Some(r.value)
                /\ pc' = "constructed"
                /\ raised' = raised
           ELSE /\ params' = NoneV
                /\ pc' = "rejected"
                /\ raised' = Some(r.error)
    /\ UNCHANGED << raw, calls, locals, returned, thrown, devices, runs >>

\* validate_params: pass
ValidateParams ==
    /\ pc = "constructed"
    /\ pc' = "validated"
    /\ UNCHANGED << raw, params, calls, locals, returned, raised, thrown, devices, runs >>

(***************************************************************************)
(* QPEAlgorithm.execute, statement by statement.                           *)
(***************************************************************************)
P == Get(params)

\* the statements inside the try block
TrySteps == {"device", "qnode", "paulix", "hadamard", "ctrl", "adjoint_qft", "probs",
             "simulate", "readout", "result", "return"}

Terminal == {"returned", "raised"}

\* execute(params): entering the try block
ExecuteBegin ==
    /\ pc \in {"constructed", "validated"}
    /\ calls < MaxCalls
    /\ calls' = calls + 1
    /\ pc' = "device"
    /\ UNCHANGED << raw, params, locals, returned, raised, thrown, devices, runs >>

\* dev = qml.device('default.qubit', wires=n_qubits)
CreateDevice ==
    /\ pc = "device"
    /\ dev' = Some([name |-> "default.qubit", wires |-> NQubits(P)])
    /\ devices' = devices + 1
    /\ pc' = "qnode"
    /\ UNCHANGED << raw, params, calls, tape, measurement, i, rep, probabilities,
                    readout, result, returned, raised, thrown, runs >>

\* probabilities = qpe_measurement(): the call; the QNode starts an empty queue
CallQNode ==
    /\ pc = "qnode"
    /\ tape' = << >>
    /\ runs' = runs + 1
    /\ pc' = "paulix"
    /\ UNCHANGED << raw, params, calls, dev, measurement, i, rep, probabilities,
                    readout, result, returned, raised, thrown, devices >>

\* qml.PauliX(wires=params.precision)
QueuePauliX ==
    /\ pc = "paulix"
    /\ tape' = Append(tape, PauliXOp(P.precision))
    /\ i' = 0
    /\ pc' = "hadamard"
    /\ UNCHANGED << raw, params, calls, dev, measurement, rep, probabilities,
                    readout, result, returned, raised, thrown, devices, runs >>

\* for i in range(params.precision): qml.Hadamard(wires=i)
HadamardLoop ==
    /\ pc = "hadamard"
    /\ IF i < P.precision
       THEN /\ tape' = Append(tape, HadamardOp(i))
            /\ i' = i + 1
            /\ pc' = pc
       ELSE /\ tape' = tape
            /\ i' = 0
            /\ pc' = "ctrl"
    /\ rep' = 0
    /\ UNCHANGED << raw, params, calls, dev, measurement, probabilities,
                    readout, result, returned, raised, thrown, devices, runs >>

\* for i in range(params.precision): controlled_unitary(i, params.precision, i),
\* which is: for _ in range(2**power): qml.ctrl(unitary_operator, control=i)(target)
ControlledLoop ==
    /\ pc = "ctrl"
    /\ IF i < P.precision
       THEN IF rep < Repetitions(i)
            THEN /\ tape' = Append(tape, ControlledOp(UnitaryOperator(P.unitary), P.angle,
                                                      i, P.precision))
                 /\ rep' = rep + 1
                 /\ i' = i
                 /\ pc' = pc
            ELSE /\ tape' = tape
                 /\ rep' = 0
                 /\ i' = i + 1
                 /\ pc' = pc
       ELSE /\ tape' = tape
            /\ rep' = 0
            /\ i' = 0
            /\ pc' = "adjoint_qft"
    /\ UNCHANGED << raw, params, calls, dev, measurement, probabilities,
                    readout, result, returned, raised, thrown, devices, runs >>

\* qml.adjoint(qml.QFT)(wires=range(params.precision))
QueueAdjointQFT ==
    /\ pc = "adjoint_qft"
    /\ tape' = Append(tape, AdjointQFTOp(Range(P.precision)))
    /\ pc' = "probs"
    /\ UNCHANGED << raw, params, calls, dev, measurement, i, rep, probabilities,
                    readout, result, returned, raised, thrown, devices, runs >>

\* return qml.probs(wires=range(params.precision))
QueueProbs ==
    /\ pc = "probs"
    /\ measurement' = Some(Range(P.precision))
    /\ pc' = "simulate"
    /\ UNCHANGED << raw, params, calls, dev, tape, i, rep, probabilities,
                    readout, result, returned, raised, thrown, devices, runs >>

\* the device runs the queued circuit from |0...0> and returns the probabilities
Simulate ==
    /\ pc = "simulate"
    /\ probabilities' =
          Some(Probs(RunTape(ZeroState(Get(dev).wires), tape, 1), Len(Get(measurement))))
    /\ pc' = "readout"
    /\ UNCHANGED << raw, params, calls, dev, tape, measurement, i, rep,
                    readout, result, returned, raised, thrown, devices, runs >>

\* measured_value = np.argmax(probabilities)
MeasuredValue(pr) == ArgMax(pr.val)

\* mutant: the division by 2^n_qubits
EstimatedPhaseQubits(mv, ps) == Rat(mv, Pow2(NQubits(ps)))

\* estimated_phase = measured_value / (2**params.precision)
EstimatedPhase(mv, ps) == Rat(mv, Pow2(ps.precision))

\* mutant: the probability of outcome 0
MaxProbabilityFirst(pr) == [val |-> pr.val[0], exp |-> pr.exp]

\* max_probability = float(np.max(probabilities))
MaxProbability(pr) == [val |-> MaxOf(pr.val), exp |-> pr.exp]

\* mutant: the distance modulo 1
PhaseErrorCircular(est, ps) ==
    LET d == RatAbs(RatSub(est, ps.angle))
        c == RatSub(Rat(1, 1), d)
    IN  IF RatLeq(d, c) THEN d ELSE c

\* phase_error = abs(estimated_phase - params.angle)
PhaseError(est, ps) == RatAbs(RatSub(est, ps.angle))

Readout ==
    /\ pc = "readout"
    /\ LET pr == Get(probabilities)
           mv == MeasuredValue(pr)
           est == EstimatedPhase(mv, P)
       IN  readout' = Some([measured_value |-> mv,
                            estimated_phase |-> est,
                            max_probability |-> MaxProbability(pr),
                            phase_error |-> PhaseError(est, P)])
    /\ pc' = "result"
    /\ UNCHANGED << raw, params, calls, dev, tape, measurement, i, rep, probabilities,
                    result, returned, raised, thrown, devices, runs >>

\* QPEResult(...)
QPEResult(ro, ps) ==
    [estimated_phase |-> ro.estimated_phase,
     true_phase |-> ps.angle,
     phase_error |-> ro.phase_error,
     measurement_probability |-> ro.max_probability,
     measured_value |-> ro.measured_value,
     precision_bits |-> ps.precision,
     unitary_type |-> ps.unitary,
     meta |-> [algorithm |-> "QPE",
               provider |-> "pennylane",
               device |-> "default.qubit",
               n_qubits |-> NQubits(ps)]]

BuildResult ==
    /\ pc = "result"
    /\ result' = Some(QPEResult(Get(readout), P))
    /\ pc' = "return"
    /\ UNCHANGED << raw, params, calls, dev, tape, measurement, i, rep, probabilities,
                    readout, returned, raised, thrown, devices, runs >>

\* logger.info(...); return result
Return ==
    /\ pc = "return"
    /\ returned' = result
    /\ pc' = "returned"
    /\ UNCHANGED << raw, params, calls, locals, raised, thrown, devices, runs >>

\* mutant: the handler starts the body of execute again
ExceptRetry(e) ==
    /\ raised' = raised
    /\ pc' = "device"
    /\ UNCHANGED << raw, params, calls, locals, returned, devices, runs >>

\* except Exception as e: raise ValidationError(...) from e; any other exception
\* leaves execute as it is
Except(e) ==
    /\ raised' = IF IsException(e.kind) THEN Some(WrapError(e)) ELSE Some(e)
    /\ pc' = "raised"
    /\ UNCHANGED << raw, params, calls, locals, returned, devices, runs >>

\* a statement of the try block raises
Raise ==
    /\ pc \in TrySteps
    /\ \E e \in Exceptions : thrown' = Some(e) /\ Except(e)

\* the state before QPEParams(**r), no frame of execute alive
FreshNext(r) ==
    /\ raw' = r
    /\ params' = NoneV
    /\ pc' = "input"
    /\ dev' = NoneV
    /\ tape' = << >>
    /\ measurement' = NoneV
    /\ i' = 0
    /\ rep' = 0
    /\ probabilities' = NoneV
    /\ readout' = NoneV
    /\ result' = NoneV
    /\ returned' = NoneV
    /\ raised' = NoneV
    /\ thrown' = NoneV
    /\ devices' = 0
    /\ runs' = 0

\* the caller goes on with new raw input; the frame of the last call is gone
NewInput ==
    /\ pc \in Terminal \cup {"rejected"}
    /\ calls < MaxCalls
    /\ calls' = calls
    /\ \E r \in RawInputs : FreshNext(r)

\* the caller tries other raw input (parameter construction alone)
Resubmit ==
    /\ pc \in {"constructed", "rejected"}
    /\ calls' = calls
    /\ \E r \in WideRawInputs : FreshNext(r)

Next ==
    \/ Construct
    \/ ValidateParams
    \/ ExecuteBegin
    \/ CreateDevice
    \/ CallQNode
    \/ QueuePauliX
    \/ HadamardLoop
    \/ ControlledLoop
    \/ QueueAdjointQFT
    \/ QueueProbs
    \/ Simulate
    \/ Readout
    \/ BuildResult
    \/ Return
    \/ Raise
    \/ NewInput

Spec == Init /\ [][Next]_vars

NextParams == Construct \/ Resubmit

SpecParams == InitParams /\ [][NextParams]_vars

(***************************************************************************)
(* Properties.                                                             *)
(***************************************************************************)
\* raw input as the schema describes it: a unitary among the three literals (or
\* none, for the default), an angle in [0,1], a precision in [1,10] (or none)
InRange(r) ==
    /\ r.unitary = NoneV \/ Get(r.unitary) \in {"rotation", "phase", "z"}
    /\ r.angle # NoneV
    /\ Get(r.angle)[1] >= 0
    /\ Get(r.angle)[1] <= Get(r.angle)[2]
    /\ r.precision = NoneV \/ Get(r.precision) \in 1 .. 10

\* C1: constructing QPEParams succeeds exactly when the unitary is one of the three
\* literals, the angle is in [0,1] and the precision is in [1,10]; every other input
\* fails with a validation error and yields no Parameters record.
C1_ConstructionIffInRange ==
    pc \in {"constructed", "rejected"} =>
        /\ (pc = "constructed") <=> InRange(raw)
        /\ pc = "constructed" =>
              /\ params # NoneV
              /\ raised = NoneV
              /\ raw.unitary # NoneV => P.unitary = Get(raw.unitary)
              /\ P.angle = Get(raw.angle)
              /\ raw.precision # NoneV => P.precision = Get(raw.precision)
        /\ pc = "rejected" =>
              /\ params = NoneV
              /\ raised # NoneV
              /\ Get(raised).kind = "pydantic.ValidationError"

\* a precision one above the range, alone at fault, was rejected
C1_Witness ==
    /\ pc = "rejected"
    /\ raw.precision = Some(11)
    /\ Get(raised).fields = {"precision"}

\* C2: device construction and circuit building happen only with parameters whose
\* unitary is one of the three literals, whose angle is in [0,1] and whose precision
\* is in [1,10]; rejected input never reaches the circuit builder.
C2_ValidatedBeforeExecution ==
    /\ (pc \in TrySteps \cup Terminal \/ dev # NoneV \/ tape # << >> \/ devices > 0) =>
          /\ InRange(raw)
          /\ params # NoneV
          /\ P.unitary \in {"rotation", "phase", "z"}
          /\ P.angle[1] >= 0 /\ P.angle[1] <= P.angle[2]
          /\ P.precision \in 1 .. 10
    /\ ~InRange(raw) =>
          /\ pc \in {"input", "rejected"}
          /\ dev = NoneV /\ tape = << >> /\ devices = 0 /\ runs = 0

\* the controlled-unitary ladder is being queued
C2_Witness ==
    /\ pc = "ctrl"
    /\ dev # NoneV
    /\ Len(tape) > P.precision + 1

\* t occurs in s as a run of consecutive words
Contains(s, t) ==
    \E k \in 0 .. (Len(s) - Len(t)) : SubSeq(s, k + 1, k + Len(t)) = t

\* C3, as claimed: any exception raised inside execute reaches the caller as a
\* ValidationError whose message contains the original message, and no QPEResult
\* is returned.
C3_AnyExceptionWrapped ==
    pc = "raised" =>
        /\ returned = NoneV
        /\ Get(raised).kind = "ValidationError"
        /\ Contains(Get(raised).msg, Get(thrown).msg)

\* C3, amended: an exception deriving from Exception reaches the caller as a
\* ValidationError whose message contains the original message; one deriving from
\* BaseException alone reaches the caller unchanged; no QPEResult is returned.
C3_ExceptionWrapped ==
    pc = "raised" =>
        /\ returned = NoneV
        /\ thrown # NoneV
        /\ Get(thrown).kind \in {"RuntimeError", "ValueError"} =>
              /\ Get(raised).kind = "ValidationError"
              /\ Contains(Get(raised).msg, Get(thrown).msg)
        /\ Get(thrown).kind \in {"KeyboardInterrupt", "SystemExit", "GeneratorExit"} =>
              raised = thrown

\* the simulation failed with a message and the caller got the ValidationError
C3_Witness ==
    /\ pc = "raised"
    /\ probabilities = NoneV /\ measurement # NoneV
    /\ Get(thrown) = [kind |-> "RuntimeError", msg |-> << "device", "unavailable" >>,
                      cause |-> NoneV]
    /\ Get(raised).kind = "ValidationError"

\* C4: for any valid input, 0 <= measured_value < 2^precision and
\* estimated_phase = measured_value / 2^precision exactly.
C4_MeasuredValueAndPhase ==
    pc = "returned" =>
        LET r == Get(returned)
            est == r.estimated_phase
        IN  /\ r.measured_value >= 0
            /\ r.measured_value < 2 ^ P.precision
            /\ est[1] * (2 ^ P.precision) = r.measured_value * est[2]
            /\ est[1] >= 0 /\ est[1] < est[2]

\* a nonzero outcome was returned
C4_Witness ==
    /\ pc = "returned"
    /\ Get(returned).measured_value = 3
    /\ P.precision = 3

\* C5: for any valid input, phase_error = abs(estimated_phase - angle) exactly, the
\* plain absolute difference, and true_phase echoes the input angle.
C5_PhaseError ==
    pc = "returned" =>
        LET r == Get(returned)
            est == r.estimated_phase
            ang == Get(raw.angle)
            d == est[1] * ang[2] - ang[1] * est[2]
        IN  /\ r.phase_error[1] * (est[2] * ang[2]) = (IF d < 0 THEN -d ELSE d) * r.phase_error[2]
            /\ r.phase_error[1] >= 0
            /\ r.true_phase = ang

\* angle 1 estimated as 0: the plain difference is 1, the distance modulo 1 is 0
C5_Witness ==
    /\ pc = "returned"
    /\ Get(raw.angle) = << 1, 1 >>
    /\ Get(returned).estimated_phase = << 0, 1 >>
    /\ Get(returned).phase_error = << 1, 1 >>

\* C6: measured_value is an outcome of maximum probability, and the lowest index
\* among the outcomes of exactly that probability.
C6_ArgMaxLowestIndex ==
    readout # NoneV =>
        LET v == Get(probabilities).val
            mv == Get(readout).measured_value
        IN  /\ mv \in DOMAIN v
            /\ DOMAIN v = 0 .. (2 ^ P.precision - 1)
            /\ \A j \in DOMAIN v : Sgn4(R4Sub(v[mv], v[j])) >= 0
            /\ \A j \in DOMAIN v : j < mv => v[j] # v[mv]

\* two outcomes share the maximum probability and the lower one was selected
C6_Witness ==
    /\ readout # NoneV
    /\ \E j \in DOMAIN Get(probabilities).val :
          /\ j > Get(readout).measured_value
          /\ Get(probabilities).val[j] =
                Get(probabilities).val[Get(readout).measured_value]

\* C7: measurement_probability is the maximum of the probability vector, the
\* probability of the selected outcome, and lies in [0,1].
C7_MeasurementProbability ==
    pc = "returned" =>
        LET r == Get(returned)
            v == Get(probabilities).val
            m == r.measurement_probability
        IN  /\ m.exp = Get(probabilities).exp
            /\ m.val = v[r.measured_value]
            /\ \A j \in DOMAIN v : Sgn4(R4Sub(m.val, v[j])) >= 0
            /\ Sgn4(m.val) >= 0
            /\ Sgn4(R4Sub(R4Int(2 ^ m.exp), m.val)) >= 0

\* a maximum strictly between 0 and 1 (an irrational one) was returned
C7_Witness ==
    /\ pc = "returned"
    /\ Get(returned).measurement_probability.val[2] # 0
    /\ Sgn4(Get(returned).measurement_probability.val) > 0
    /\ Sgn4(R4Sub(R4Int(2 ^ Get(returned).measurement_probability.exp),
                  Get(returned).measurement_probability.val)) > 0

\* C8: unitary "rotation", angle 0.5, precision 3 returns estimated_phase 0.25
\* (measured_value 2 of 8 outcomes) and metadata with provider "pennylane".
C8_RotationHalfThreeBits ==
    (pc = "returned" /\ P = [unitary |-> "rotation", angle |-> << 1, 2 >>, precision |-> 3]) =>
        /\ Get(returned).estimated_phase = << 1, 4 >>
        /\ Get(returned).measured_value = 2
        /\ Cardinality(DOMAIN Get(probabilities).val) = 8
        /\ Get(returned).meta.provider = "pennylane"

C8_Witness ==
    /\ pc = "returned"
    /\ raw = [unitary |-> Some("rotation"), angle |-> Some(<< 1, 2 >>), precision |-> Some(3)]
    /\ Get(returned).estimated_phase = << 1, 4 >>

\* C9, as claimed: a call constructs at most one device, a fresh one before its one
\* simulation, runs the simulation at most once and ends in exactly one of two outcomes, a QPEResult returned or a ValidationError
\* raised; no retry, no partial result, nothing carried into the next call.
C9_TwoOutcomes ==
    /\ devices <= 1 /\ runs <= 1
    /\ runs = 1 => devices = 1
    /\ pc \in Terminal =>
          /\ (returned # NoneV) # (raised # NoneV)
          /\ raised # NoneV => Get(raised).kind = "ValidationError"
          /\ pc = "raised" => returned = NoneV
          /\ pc = "returned" => returned = result /\ devices = 1 /\ runs = 1
    /\ pc \in {"input", "constructed", "validated"} =>
          /\ locals = << NoneV, << >>, NoneV, 0, 0, NoneV, NoneV, NoneV >>
          /\ returned = NoneV /\ raised = NoneV /\ devices = 0 /\ runs = 0

\* C9, amended: as claimed, except that the error raised is a ValidationError or an
\* exception deriving from BaseException alone.
C9_OneCallOneOutcome ==
    /\ devices <= 1 /\ runs <= 1
    /\ runs = 1 => devices = 1
    /\ pc \in Terminal =>
          /\ (returned # NoneV) # (raised # NoneV)
          /\ raised # NoneV =>
                Get(raised).kind \in {"ValidationError", "KeyboardInterrupt", "SystemExit",
                                      "GeneratorExit"}
          /\ pc = "raised" => returned = NoneV
          /\ pc = "returned" => returned = result /\ devices = 1 /\ runs = 1
    /\ pc \in {"input", "constructed", "validated"} =>
          /\ locals = << NoneV, << >>, NoneV, 0, 0, NoneV, NoneV, NoneV >>
          /\ returned = NoneV /\ raised = NoneV /\ devices = 0 /\ runs = 0

\* the second call failed after its one simulation
C9_Witness ==
    /\ pc = "raised"
    /\ calls = 2
    /\ devices = 1 /\ runs = 1
    /\ probabilities # NoneV

\* C10: the circuit acts on p+1 wires and is: Pauli-X on wire p; a Hadamard on each
\* of wires 0..p-1; for i = 0..p-1 in order, 2^i applications of the chosen unitary
\* controlled on wire i with target p; the inverse QFT over wires 0..p-1.
C10_GateSequence ==
    pc \in {"probs", "simulate", "readout", "result", "return", "returned"} =>
        LET p == P.precision
            gate == CASE P.unitary = "rotation" -> "RY"
                      [] P.unitary = "phase" -> "PhaseShift"
                      [] P.unitary = "z" -> "RZ"
        IN  /\ Get(dev).wires = p + 1
            /\ Len(tape) = 1 + p + (2 ^ p - 1) + 1
            /\ tape[1] = [name |-> "PauliX", control |-> << >>, wires |-> << p >>,
                          angle |-> NoneV]
            /\ \A k \in 0 .. (p - 1) :
                  tape[2 + k] = [name |-> "Hadamard", control |-> << >>, wires |-> << k >>,
                                 angle |-> NoneV]
            /\ \A k \in 0 .. (p - 1) : \A r \in 1 .. (2 ^ k) :
                  tape[1 + p + (2 ^ k - 1) + r] =
                      [name |-> gate, control |-> << k >>, wires |-> << p >>,
                       angle |-> Some(P.angle)]
            /\ tape[Len(tape)].name = "Adjoint(QFT)"
            /\ tape[Len(tape)].control = << >>
            /\ tape[Len(tape)].wires = [k \in 1 .. p |-> k - 1]

\* the three-qubit ladder of phase shifts was built
C10_Witness ==
    /\ pc = "simulate"
    /\ P.precision = 3
    /\ P.unitary = "phase"
    /\ Len(tape) = 12

=============================================================================
